---- MODULE Spec2Model ----
(***************************************************************************)
(* Model of the file organizer in src/sample.py: the three-node pipeline   *)
(* classify_file -> move_file -> log_report compiled into `app`, and the   *)
(* "Start Organizing" batch loop that invokes it once per listed file.     *)
(*                                                                         *)
(* Text is modelled as a sequence of one-character strings, so that        *)
(* split("."), lower(), strip() and re.sub() are computed character by     *)
(* character.  A path is the sequence of its components below folder_path: *)
(* <<name>> is folder_path/name, <<ORGANIZED, cat, name>> is               *)
(* folder_path/organized/cat/name.                                         *)
(***************************************************************************)
EXTENDS Integers, Sequences, FiniteSets, TLC

\* ---------------------------------------------------------------- bounds
MaxNameLen == 3
MaxFiles == 2
MaxResponseLen == 2
MaxRemovals == 1

\* Characters file names are drawn from: reach the table keys "c" and "gz",
\* an upper-case variant, unmatched letters and the separator.
NameChars == {"c", "C", "g", "z", "."}
\* Characters oracle responses are drawn from: a kept letter, an upper-case
\* letter, whitespace and a character the sanitiser removes.
ResponseChars == {"a", "A", " ", "!"}
\* Names of the folders that hold more than one file.
BatchNames == {<<"c">>, <<"z">>, <<"g", ".", "C">>}

SeqsUpTo(S, n) == UNION {[1..k -> S] : k \in 0..n}
Names ==
    {s \in SeqsUpTo(NameChars, MaxNameLen) :
        Len(s) >= 1 /\ s # <<".">> /\ s # <<".", ".">>}
Responses == SeqsUpTo(ResponseChars, MaxResponseLen)
Folders ==
    {{}} \cup {{n} : n \in Names}
         \cup {S \in SUBSET BatchNames : Cardinality(S) >= 2 /\ Cardinality(S) <= MaxFiles}
Orderings(S) ==
    {s \in [1..Cardinality(S) -> S] : \A i, j \in DOMAIN s : i # j => s[i] # s[j]}

\* ------------------------------------------------------- text operations
UpperCase == <<"A","B","C","D","E","F","G","H","I","J","K","L","M",
               "N","O","P","Q","R","S","T","U","V","W","X","Y","Z">>
LowerCase == <<"a","b","c","d","e","f","g","h","i","j","k","l","m",
               "n","o","p","q","r","s","t","u","v","w","x","y","z">>
Digits == {"0","1","2","3","4","5","6","7","8","9"}
Whitespace == {" ", "\t", "\n", "\r", "\f"}

\* str.lower()
lower_char(c) ==
    IF \E i \in DOMAIN UpperCase : UpperCase[i] = c
    THEN LowerCase[CHOOSE i \in DOMAIN UpperCase : UpperCase[i] = c]
    ELSE c
lower(s) == [i \in DOMAIN s |-> lower_char(s[i])]

\* str.strip()
RECURSIVE lstrip(_)
lstrip(s) ==
    IF s # <<>> /\ Head(s) \in Whitespace THEN lstrip(Tail(s)) ELSE s
RECURSIVE rstrip(_)
rstrip(s) ==
    IF s # <<>> /\ s[Len(s)] \in Whitespace
    THEN rstrip(SubSeq(s, 1, Len(s) - 1)) ELSE s
strip(s) == rstrip(lstrip(s))

\* s.split(".")[-1]: the text after the last ".", the whole of s without one
RECURSIVE split_last(_)
split_last(s) ==
    IF \E i \in DOMAIN s : s[i] = "."
    THEN split_last(Tail(s))
    ELSE s

\* os.path.basename, os.path.dirname, os.path.join on component sequences
basename(p) == p[Len(p)]
dirname(p) == SubSeq(p, 1, Len(p) - 1)
join(d, c) == Append(d, c)

OTHERS == <<"o","t","h","e","r","s">>
ORGANIZED == <<"o","r","g","a","n","i","z","e","d">>
CouldNotRead == "Could not read content for summary."

\* the character class [a-z0-9_-] of clean_category's pattern
CategoryChars == {LowerCase[i] : i \in DOMAIN LowerCase} \cup Digits \cup {"_", "-"}
IsCategoryChar(c) == c \in CategoryChars
\* re.sub(r'[^a-z0-9_-]', '', cat)
re_sub(cat) == SelectSeq(cat, IsCategoryChar)

clean_category(cat) ==
    LET stripped == lower(strip(cat))
        kept == re_sub(stripped)
    IN  IF kept = <<>> THEN OTHERS ELSE kept

mapping ==
    <<"p","d","f">> :> <<"d","o","c","u","m","e","n","t","s">> @@
    <<"d","o","c">> :> <<"d","o","c","u","m","e","n","t","s">> @@
    <<"d","o","c","x">> :> <<"d","o","c","u","m","e","n","t","s">> @@
    <<"t","x","t">> :> <<"d","o","c","u","m","e","n","t","s">> @@
    <<"m","d">> :> <<"d","o","c","u","m","e","n","t","s">> @@
    <<"r","t","f">> :> <<"d","o","c","u","m","e","n","t","s">> @@
    <<"e","p","u","b">> :> <<"d","o","c","u","m","e","n","t","s">> @@
    <<"p","n","g">> :> <<"i","m","a","g","e","s">> @@
    <<"j","p","g">> :> <<"i","m","a","g","e","s">> @@
    <<"j","p","e","g">> :> <<"i","m","a","g","e","s">> @@
    <<"g","i","f">> :> <<"i","m","a","g","e","s">> @@
    <<"s","v","g">> :> <<"i","m","a","g","e","s">> @@
    <<"w","e","b","p">> :> <<"i","m","a","g","e","s">> @@
    <<"m","p","4">> :> <<"v","i","d","e","o","s">> @@
    <<"m","k","v">> :> <<"v","i","d","e","o","s">> @@
    <<"m","o","v">> :> <<"v","i","d","e","o","s">> @@
    <<"a","v","i">> :> <<"v","i","d","e","o","s">> @@
    <<"w","m","v">> :> <<"v","i","d","e","o","s">> @@
    <<"w","e","b","m">> :> <<"v","i","d","e","o","s">> @@
    <<"m","p","3">> :> <<"a","u","d","i","o">> @@
    <<"w","a","v">> :> <<"a","u","d","i","o">> @@
    <<"a","a","c">> :> <<"a","u","d","i","o">> @@
    <<"o","g","g">> :> <<"a","u","d","i","o">> @@
    <<"f","l","a","c">> :> <<"a","u","d","i","o">> @@
    <<"z","i","p">> :> <<"a","r","c","h","i","v","e","s">> @@
    <<"r","a","r">> :> <<"a","r","c","h","i","v","e","s">> @@
    <<"t","a","r">> :> <<"a","r","c","h","i","v","e","s">> @@
    <<"g","z">> :> <<"a","r","c","h","i","v","e","s">> @@
    <<"7","z">> :> <<"a","r","c","h","i","v","e","s">> @@
    <<"p","y">> :> <<"c","o","d","e">> @@
    <<"j","s">> :> <<"c","o","d","e">> @@
    <<"t","s">> :> <<"c","o","d","e">> @@
    <<"h","t","m","l">> :> <<"c","o","d","e">> @@
    <<"c","s","s">> :> <<"c","o","d","e">> @@
    <<"j","a","v","a">> :> <<"c","o","d","e">> @@
    <<"c">> :> <<"c","o","d","e">> @@
    <<"c","p","p">> :> <<"c","o","d","e">> @@
    <<"c","s">> :> <<"c","o","d","e">> @@
    <<"r","b">> :> <<"c","o","d","e">> @@
    <<"p","h","p">> :> <<"c","o","d","e">> @@
    <<"s","w","i","f","t">> :> <<"c","o","d","e">> @@
    <<"g","o">> :> <<"c","o","d","e">> @@
    <<"r","s">> :> <<"c","o","d","e">> @@
    <<"k","t">> :> <<"c","o","d","e">> @@
    <<"s","h">> :> <<"c","o","d","e">> @@
    <<"b","a","t">> :> <<"c","o","d","e">> @@
    <<"c","s","v">> :> <<"d","a","t","a">> @@
    <<"x","l","s","x">> :> <<"s","p","r","e","a","d","s","h","e","e","t","s">> @@
    <<"x","l","s">> :> <<"s","p","r","e","a","d","s","h","e","e","t","s">> @@
    <<"o","d","s">> :> <<"s","p","r","e","a","d","s","h","e","e","t","s">> @@
    <<"j","s","o","n">> :> <<"d","a","t","a">> @@
    <<"x","m","l">> :> <<"d","a","t","a">> @@
    <<"y","a","m","l">> :> <<"d","a","t","a">> @@
    <<"y","m","l">> :> <<"d","a","t","a">> @@
    <<"e","x","e">> :> <<"a","p","p","l","i","c","a","t","i","o","n","s">> @@
    <<"d","l","l">> :> <<"s","y","s","t","e","m">> @@
    <<"b","i","n">> :> <<"b","i","n","a","r","i","e","s">> @@
    <<"i","s","o">> :> <<"d","i","s","k","_","i","m","a","g","e","s">>

\* ------------------------------------------------------------------ state
VARIABLES
    folder_ok,      \* folder_path is non-empty and exists (line 222)
    enable_summary, \* st.session_state["settings"]["enable_summary"]
    fs,             \* paths of the regular files on disk below folder_path
    dirs,           \* directories created below folder_path
    files,          \* the listing the batch loop iterates over
    idx,            \* number of loop iterations begun
    pc,             \* position of the script
    state,          \* the FileState record of the current pipeline invocation
    report_logs,
    summary_logs,
    llm_calls,      \* the calls llm.invoke has received, <<purpose, filename>>
    error,          \* the call that raised out of the script, "none" if none
    removals        \* what other processes removed from the folder, and when

vars == <<folder_ok, enable_summary, fs, dirs, files, idx, pc, state,
          report_logs, summary_logs, llm_calls, error, removals>>

\* class FileState with the values the loop passes to app.invoke
FileState(filepath) ==
    [filepath |-> filepath, category |-> <<>>, new_path |-> <<>>, logs |-> <<>>]

NoState == FileState(<<>>)

Init ==
    /\ folder_ok \in BOOLEAN
    /\ enable_summary \in BOOLEAN
    /\ \E F \in Folders :
          fs = IF folder_ok THEN {<<n>> : n \in F} ELSE {}
    /\ dirs = {}
    /\ files = <<>>
    /\ idx = 0
    /\ pc = "start"
    /\ state = NoState
    /\ report_logs = <<>>
    /\ summary_logs = <<>>
    /\ llm_calls = <<>>
    /\ error = "none"
    /\ removals = {}

\* ------------------------------------------------------------ batch loop
\* "Start Organizing": validate the folder, list its regular files.
StartOrganizing ==
    /\ pc = "start"
    /\ IF ~folder_ok
       THEN /\ pc' = "invalid"
            /\ UNCHANGED files
       ELSE /\ files' \in Orderings({p[1] : p \in {q \in fs : Len(q) = 1}})
            /\ pc' = "loop"
    /\ report_logs' = <<>>
    /\ summary_logs' = <<>>
    /\ UNCHANGED <<folder_ok, enable_summary, fs, dirs, idx, state, llm_calls,
                   error, removals>>

\* for idx, file in enumerate(files): app.invoke({...}) enters the graph
Invoke ==
    /\ pc = "loop"
    /\ idx < Len(files)
    /\ idx' = idx + 1
    /\ state' = FileState(<<files[idx + 1]>>)
    /\ pc' = "classify"
    /\ UNCHANGED <<folder_ok, enable_summary, fs, dirs, files, report_logs,
                   summary_logs, llm_calls, error, removals>>

\* the loop is exhausted: st.success, session_state is written
Finish ==
    /\ pc = "loop"
    /\ idx = Len(files)
    /\ pc' = "done"
    /\ UNCHANGED <<folder_ok, enable_summary, fs, dirs, files, idx, state,
                   report_logs, summary_logs, llm_calls, error, removals>>

\* ------------------------------------------------------------ the graph
\* ext with the .lower() call left out
ext_case_sensitive(filename) == split_last(filename)
ext(filename) == lower(split_last(filename))

ClassifiedEntry(filename, category) == <<"Classified", filename, category>>
MovedEntry(new_path) == <<"Moved file to", new_path>>
CompletedEntry == <<"Completed file processing.">>

\* state["category"] = c; state["logs"].append(f"Classified ...")
classified(st, c) ==
    [st EXCEPT !.category = c,
               !.logs = Append(@, ClassifiedEntry(basename(st.filepath), c))]

\* An exception leaves the script: nothing below the raising call runs.
Raise(call) ==
    /\ error' = call
    /\ pc' = "crashed"

classify_file ==
    /\ pc = "classify"
    /\ LET filename == basename(state.filepath)
       IN  IF ext(filename) \in DOMAIN mapping
           THEN /\ state' = classified(state, mapping[ext(filename)])
                /\ pc' = "move"
                /\ UNCHANGED <<llm_calls, error>>
           ELSE /\ llm_calls' = Append(llm_calls, <<"classify", filename>>)
                /\ \/ \E content \in Responses :
                         /\ state' = classified(state, clean_category(content))
                         /\ pc' = "move"
                         /\ UNCHANGED error
                   \/ /\ Raise("llm.invoke")
                      /\ UNCHANGED state
    /\ UNCHANGED <<folder_ok, enable_summary, fs, dirs, files, idx, report_logs,
                   summary_logs, removals>>

\* os.path.join(os.path.join(input_folder, "organized"), category)
base_folder(filepath) == join(dirname(filepath), ORGANIZED)
\* target_folder that leaves the category component out
target_folder_flat(filepath, category) == base_folder(filepath)
target_folder(filepath, category) == join(base_folder(filepath), category)

\* a copy in place of the move: the source stays where it was
shutil_copy(disk, src, dst) == disk \cup {dst}

\* shutil.move(src, dst) of an existing regular file
shutil_move(disk, src, dst) == (disk \ {src}) \cup {dst}

\* state["new_path"] = new_path; state["logs"].append(f"Moved file to ...")
moved(st, new_path) ==
    [st EXCEPT !.new_path = new_path, !.logs = Append(@, MovedEntry(new_path))]

\* move_file with new_path and its log entry recorded before shutil.move runs
move_file_records_first ==
    /\ pc = "move"
    /\ LET filepath == state.filepath
           base == base_folder(filepath)
           target == target_folder(filepath, state.category)
           new_path == join(target, basename(filepath))
       IN  /\ dirs' = dirs \cup {base, target}
           /\ state' = moved(state, new_path)
           /\ IF filepath \in fs
              THEN /\ fs' = shutil_move(fs, filepath, new_path)
                   /\ pc' = "log"
                   /\ UNCHANGED error
              ELSE /\ Raise("shutil.move")
                   /\ UNCHANGED fs
    /\ UNCHANGED <<folder_ok, enable_summary, files, idx, report_logs,
                   summary_logs, llm_calls, removals>>

move_file ==
    /\ pc = "move"
    /\ LET filepath == state.filepath
           base == base_folder(filepath)
           target == target_folder(filepath, state.category)
           new_path == join(target, basename(filepath))
       IN  \/ \* os.makedirs(base_folder) raises: the directory cannot be created
              /\ base \notin dirs
              /\ Raise("os.makedirs")
              /\ UNCHANGED <<fs, dirs, state>>
           \/ \* os.makedirs(target_folder) raises
              /\ target \notin dirs
              /\ dirs' = dirs \cup {base}
              /\ Raise("os.makedirs")
              /\ UNCHANGED <<fs, state>>
           \/ /\ dirs' = dirs \cup {base, target}
              /\ IF filepath \in fs
                 THEN /\ fs' = shutil_move(fs, filepath, new_path)
                      /\ state' = moved(state, new_path)
                      /\ pc' = "log"
                      /\ UNCHANGED error
                 ELSE /\ Raise("shutil.move")
                      /\ UNCHANGED <<fs, state>>
    /\ UNCHANGED <<folder_ok, enable_summary, files, idx, report_logs,
                   summary_logs, llm_calls, removals>>

\* log_report that assigns the list in place of appending to it
log_report_overwrite(st) == [st EXCEPT !.logs = <<CompletedEntry>>]
log_report(st) == [st EXCEPT !.logs = Append(@, CompletedEntry)]

LogNode ==
    /\ pc = "log"
    /\ state' = log_report(state)
    /\ pc' = "after"
    /\ UNCHANGED <<folder_ok, enable_summary, fs, dirs, files, idx, report_logs,
                   summary_logs, llm_calls, error, removals>>

\* app.invoke has returned: report_logs.extend, then the summary step.
AfterInvoke ==
    /\ pc = "after"
    /\ report_logs' = report_logs \o state.logs
    /\ LET file == files[idx]
           full_path == <<file>>
       IN  IF ~enable_summary
           THEN UNCHANGED <<summary_logs, llm_calls>>
           ELSE IF full_path \in fs
                THEN /\ llm_calls' = Append(llm_calls, <<"summary", file>>)
                     /\ \/ summary_logs' = Append(summary_logs, <<file, "summary">>)
                        \/ summary_logs' = Append(summary_logs, <<file, CouldNotRead>>)
                ELSE /\ summary_logs' = Append(summary_logs, <<file, CouldNotRead>>)
                     /\ UNCHANGED llm_calls
    /\ pc' = "loop"
    /\ UNCHANGED <<folder_ok, enable_summary, fs, dirs, files, idx, state, error,
                   removals>>

\* ------------------------------------------------------------ environment
\* Another process removes a listed file that is still in the folder.
ExternalRemove ==
    /\ pc \in {"loop", "classify", "move", "log", "after"}
    /\ Cardinality(removals) < MaxRemovals
    /\ \E p \in fs :
          /\ Len(p) = 1
          /\ fs' = fs \ {p}
          /\ removals' = removals \cup {[path |-> p, at |-> pc, idx |-> idx]}
    /\ UNCHANGED <<folder_ok, enable_summary, dirs, files, idx, pc, state,
                   report_logs, summary_logs, llm_calls, error>>

Next ==
    \/ StartOrganizing
    \/ Invoke
    \/ classify_file
    \/ move_file
    \/ LogNode
    \/ AfterInvoke
    \/ Finish
    \/ ExternalRemove

Spec == Init /\ [][Next]_vars


\* ---------------------------------------------------------------- claims
CurrentName == IF state.filepath = <<>> THEN <<>> ELSE basename(state.filepath)

\* the classify stage of the current invocation has completed
ClassifyCompleted ==
    \/ pc \in {"move", "log", "after"}
    \/ pc = "crashed" /\ error \in {"os.makedirs", "shutil.move"}

\* the current invocation ran classify, move and log to the end
RunSucceeded ==
    \/ pc = "after"
    \/ pc \in {"loop", "done"} /\ idx >= 1

HasDot(s) == \E i \in DOMAIN s : s[i] = "."
\* the text after the final "." of a name that has one
AfterFinalDot(s) ==
    LET last == CHOOSE i \in DOMAIN s :
                    s[i] = "." /\ \A j \in DOMAIN s : s[j] = "." => j <= i
    IN  SubSeq(s, last + 1, Len(s))
\* the extension, compared case-insensitively, is a key of the table
ExtensionInTable(s) == HasDot(s) /\ lower(AfterFinalDot(s)) \in DOMAIN mapping

CallsFor(purpose, name) ==
    Cardinality({i \in DOMAIN llm_calls : llm_calls[i] = <<purpose, name>>})

StageEntries == {"Classified", "Moved file to", "Completed file processing."}
IsPrefix(s, t) == Len(s) <= Len(t) /\ SubSeq(t, 1, Len(s)) = s

\* C1: when the batch loop has ended, by exhausting the listing or by an
\* error raised from one file's pipeline invocation, every listed file has
\* had its own pipeline invocation: an error in one file never ends the batch.
C1_BatchIsolation ==
    pc \in {"done", "crashed"} => \A i \in DOMAIN files : i <= idx

\* C2: once classify has completed for a file name whose extension (the text
\* after the final ".", compared case-insensitively) is a key of the table,
\* category is the table's value for it and the oracle was not called.
C2_TableLookup ==
    (ClassifyCompleted /\ ExtensionInTable(CurrentName)) =>
        /\ state.category = mapping[lower(AfterFinalDot(CurrentName))]
        /\ CallsFor("classify", CurrentName) = 0

C2_Witness ==
    /\ ClassifyCompleted
    /\ ExtensionInTable(CurrentName)
    /\ AfterFinalDot(CurrentName) # lower(AfterFinalDot(CurrentName))
    /\ state.category = <<"c","o","d","e">>

\* C3: once classify has completed for a file name whose extension is
\* unrecognized or absent, the oracle was invoked exactly once for it and the
\* category is non-empty and made of characters of [a-z0-9_-] only.
C3_OracleFallback ==
    (ClassifyCompleted /\ ~ExtensionInTable(CurrentName)) =>
        /\ CallsFor("classify", CurrentName) = 1
        /\ state.category # <<>>
        /\ \A i \in DOMAIN state.category : state.category[i] \in CategoryChars

\* C4: after a successful pipeline run the file is no longer at filepath, is
\* at new_path, and new_path is <parent>/organized/<category>/<basename>.
C4_RoundTrip ==
    RunSucceeded =>
        /\ state.filepath \notin fs
        /\ state.new_path \in fs
        /\ state.new_path =
              dirname(state.filepath) \o <<ORGANIZED, state.category, CurrentName>>

C4_Witness ==
    /\ pc = "after"
    /\ state.new_path \in fs
    /\ Len(state.logs) = 3

\* C5: when the oracle call of classify has failed, some log line of the file
\* marks the failure and the batch has not crashed.
C5_OracleFailureLogged ==
    error = "llm.invoke" =>
        /\ pc # "crashed"
        /\ \E i \in DOMAIN (report_logs \o state.logs) :
              (report_logs \o state.logs)[i][1] \notin StageEntries

\* C6: a pipeline invocation whose filepath was no existing regular file
\* when it started (another process removed the file before the loop reached
\* it) is rejected before classify: no category is written, no log entry is
\* appended and no oracle call is made for it.
MissingAtStart ==
    \E r \in removals : r.path = state.filepath /\ r.idx < idx

C6_InvalidInputRejected ==
    MissingAtStart =>
        /\ state.category = <<>>
        /\ state.logs = <<>>
        /\ CallsFor("classify", CurrentName) = 0

\* C7: if the source file was removed by another process after classify
\* completed and before the move ran, the move stage has failed and left the
\* record with category set, new_path empty and only the classify log entry.
RemovedBeforeMove ==
    \E r \in removals : r.path = state.filepath /\ r.at = "move" /\ r.idx = idx

C7_MoveFailurePartial ==
    (RemovedBeforeMove /\ pc # "move") =>
        /\ pc = "crashed"
        /\ error \in {"os.makedirs", "shutil.move"}
        /\ state.category # <<>>
        /\ state.new_path = <<>>
        /\ state.logs = <<ClassifiedEntry(CurrentName, state.category)>>

C7_Witness ==
    /\ RemovedBeforeMove
    /\ error = "shutil.move"
    /\ state.category # <<>>

\* C8: within a pipeline run logs only grows by appending; every completed
\* stage makes it strictly longer; the stages follow one another in the order
\* classify, move, log; a successful run ends with the entries "Classified",
\* "Moved file to", "Completed file processing." in that order.
C8_StageStep ==
    (idx' = idx /\ pc \in {"classify", "move", "log"} /\ pc' # pc /\ pc' # "crashed") =>
        /\ Len(state'.logs) > Len(state.logs)
        /\ <<pc, pc'>> \in {<<"classify", "move">>, <<"move", "log">>, <<"log", "after">>}

C8_LogsMonotone ==
    /\ [][idx' = idx => IsPrefix(state.logs, state'.logs)]_vars
    /\ [][C8_StageStep]_vars
    /\ [](pc = "after" =>
            /\ Len(state.logs) >= 3
            /\ state.logs[1][1] = "Classified"
            /\ state.logs[2][1] = "Moved file to"
            /\ state.logs[3][1] = "Completed file processing.")

C8_Witness ==
    /\ pc = "after"
    /\ state.logs = <<ClassifiedEntry(CurrentName, state.category),
                      MovedEntry(state.new_path), CompletedEntry>>

\* C9: once classify has completed for a file name that contains no ".", the
\* table lookup found no match and the oracle was consulted for it.
C9_NoDotUnmatched ==
    (ClassifyCompleted /\ ~HasDot(CurrentName)) =>
        CallsFor("classify", CurrentName) >= 1

\* C10: with summaries enabled, every file whose pipeline run has returned has
\* the summary entry "<file>: Could not read content for summary.", and no
\* summary call was made to the oracle.
SummariesDue == IF pc \in {"start", "invalid", "loop", "done"} THEN idx ELSE idx - 1

C10_SummaryAfterMove ==
    enable_summary =>
        /\ Len(summary_logs) = SummariesDue
        /\ \A i \in DOMAIN summary_logs : summary_logs[i] = <<files[i], CouldNotRead>>
        /\ \A j \in DOMAIN llm_calls : llm_calls[j][1] # "summary"

C10_Witness ==
    /\ enable_summary
    /\ Len(summary_logs) = 2
    /\ RunSucceeded

====
